---- MODULE Spec2Model ----
(***************************************************************************)
(* Multi-agent chat orchestration (src/src/multi_agent_chat.py).           *)
(*                                                                         *)
(* The model follows main(): MultiAgentChat() loads the configuration,     *)
(* setup_agents registers one Agent per persona whose model creation       *)
(* succeeds, the user selects a target list once, and every message of the *)
(* chat loop is dispatched by chat_with_agents to a ThreadPoolExecutor.    *)
(* Each submitted turn is Agent.stream_chat running on a worker thread.    *)
(*                                                                         *)
(* Text is a sequence of one-character strings, so that get_clean_response *)
(* is computed on characters as the regular expression does.               *)
(***************************************************************************)
EXTENDS Naturals, Sequences, FiniteSets, TLC

(***************************************************************************)
(* Bounds of the model.                                                    *)
(***************************************************************************)
\* messages read by the chat loop before the user types 'quit'
MaxBatches == 2
\* length of the agent selection typed by the user
MaxTargets == 2
\* fragments a runtime stream delivers before it ends or fails
MaxFragments == 1
\* ThreadPoolExecutor(max_workers=10) in the source; the model runs the
\* same pool scaled down so that a batch can exceed its capacity
max_workers == 2

(***************************************************************************)
(* Inputs.                                                                 *)
(***************************************************************************)
\* persona keys of config['models'], in file order
PersonaKeys == <<"a", "b">>
\* the names the user may type: a persona that setup_agents did not register
\* is a name that is not in the registry
Names == {PersonaKeys[i] : i \in 1..Len(PersonaKeys)}

CustomNameOf(k) == <<k, "custom">>
BaseModelOf(k) == <<k, "base">>

\* one entry of config['models']: the fields it carries and what
\* ollama.create answers for it
Persona(k, fields, create) ==
    [key |-> k, custom_name |-> CustomNameOf(k), base_model |-> BaseModelOf(k),
     has_fields |-> fields, create_ok |-> create]

\* the parsed 'models' sections the configuration file may hold: the first
\* persona is complete or lacks a field, the second is complete and its
\* ollama.create succeeds or raises
ModelsChoices ==
    {<<p, q>> : p \in {Persona(PersonaKeys[1], TRUE, TRUE), Persona(PersonaKeys[1], FALSE, TRUE)},
                q \in {Persona(PersonaKeys[2], TRUE, TRUE), Persona(PersonaKeys[2], TRUE, FALSE)}}

OPEN == <<"<", "t", "h", "i", "n", "k", ">">>
CLOSE == <<"<", "/", "t", "h", "i", "n", "k", ">">>
Whitespace == {" ", "\n"}

\* user messages typed in the chat loop
Messages == {<<"h", "i">>}
\* content fragments the runtime may stream
Fragments == {OPEN \o <<"t">>, CLOSE \o <<"o", "k", " ">>}

RECURSIVE SeqsUpTo(_, _)
SeqsUpTo(S, n) ==
    IF n = 0 THEN {<<>>}
    ELSE LET shorter == SeqsUpTo(S, n - 1)
         IN  shorter \cup {Append(s, x) : s \in {t \in shorter : Len(t) = n - 1}, x \in S}

\* what the user may type as the comma separated selection
TargetLists == SeqsUpTo(Names, MaxTargets)

\* selections of one more name than the executor has workers
LongLists == {l \in SeqsUpTo(Names, max_workers + 1) : Len(l) = max_workers + 1}
\* messages of a session that sends one such selection
OneBatch == 1

\* fragments of a runtime whose stream cuts the text anywhere, also inside
\* a marker
MaxPieces == 5
Pieces == {<<"<", "t", "h", "i">>, <<"n", "k", ">">>, OPEN, CLOSE, <<"x">>, <<"\n">>}
\* selections of one name
SingleLists == {l \in SeqsUpTo(Names, 1) : Len(l) = 1}

(***************************************************************************)
(* Agent.get_clean_response: re.sub(r'<think>.*?</think>', '', response,   *)
(* flags=re.DOTALL) followed by strip().                                   *)
(***************************************************************************)
StartsWithAt(s, i, p) ==
    /\ i + Len(p) - 1 <= Len(s)
    /\ SubSeq(s, i, i + Len(p) - 1) = p

\* position of the first CLOSE at or after j, 0 when there is none
FirstClose(s, j) ==
    LET hits == {k \in j..Len(s) : StartsWithAt(s, k, CLOSE)}
    IN  IF hits = {} THEN 0 ELSE CHOOSE k \in hits : \A h \in hits : k <= h

\* leftmost non-overlapping matches of OPEN .*? CLOSE replaced by ''
RECURSIVE ReSub(_, _)
ReSub(s, i) ==
    IF i > Len(s) THEN <<>>
    ELSE IF StartsWithAt(s, i, OPEN) /\ FirstClose(s, i + Len(OPEN)) # 0
         THEN ReSub(s, FirstClose(s, i + Len(OPEN)) + Len(CLOSE))
         ELSE <<s[i]>> \o ReSub(s, i + 1)

RECURSIVE LStrip(_)
LStrip(s) == IF s # <<>> /\ Head(s) \in Whitespace THEN LStrip(Tail(s)) ELSE s

RECURSIVE RStrip(_)
RStrip(s) ==
    IF s # <<>> /\ s[Len(s)] \in Whitespace THEN RStrip(SubSeq(s, 1, Len(s) - 1)) ELSE s

Strip(s) == RStrip(LStrip(s))

get_clean_response(response) == Strip(ReSub(response, 1))

(***************************************************************************)
(* State.                                                                  *)
(***************************************************************************)
VARIABLES
    mainpc,          \* position of the main thread
    config,          \* self.config
    setup_i,         \* persona setup_agents is at
    agents,          \* self.agents: name -> Agent
    selected_agents, \* the selection main() parsed
    batches,         \* messages read by the chat loop so far
    call,            \* the running chat_with_agents call: its arguments and locals
    tasks,           \* work items the executor was given, by submission number
    work_queue,      \* executor queue: submitted work items no worker took yet
    stdout_main,     \* what the main thread printed
    entry_len,       \* length of each history when chat_with_agents was entered
    stats,           \* per name: the stream_chat calls that returned so far
    cm               \* the single-persona program chat_with_model.py

vars == <<mainpc, config, setup_i, agents, selected_agents, batches, call, tasks,
          work_queue, stdout_main, entry_len, stats, cm>>

Message(role, content) == [role |-> role, content |-> content]

\* Agent.__init__
NewAgent(name, model_name) ==
    [name |-> name, model_name |-> model_name, conversation_history |-> <<>>]

\* add_message inserting at the front instead of appending
add_message_front(history, role, content) == <<Message(role, content)>> \o history

\* add_message overwriting the last entry instead of appending
add_message_overwrite(history, role, content) ==
    IF history = <<>> THEN <<Message(role, content)>>
    ELSE [history EXCEPT ![Len(history)] = Message(role, content)]

\* Agent.add_message: conversation_history.append({...})
add_message(history, role, content) == Append(history, Message(role, content))

\* printed0 marks where the output of the call starts in stdout_main
NoCall ==
    [message |-> <<>>, agent_names |-> <<>>, i |-> 0, futures |-> <<>>, j |-> 0,
     printed0 |-> 0]

\* chat_with_model.py is a program of its own: it is not running
NotStarted == [pc |-> "not_started"]

Init ==
    /\ mainpc = "load_config"
    /\ config = [kind |-> "unset", models |-> <<>>]
    /\ setup_i = 0
    /\ agents = <<>>
    /\ selected_agents = <<>>
    /\ batches = 0
    /\ call = NoCall
    /\ tasks = <<>>
    /\ work_queue = <<>>
    /\ stdout_main = <<>>
    /\ entry_len = <<>>
    /\ stats = [n \in Names |-> [ok |-> 0, failed |-> 0, overlapped |-> FALSE]]
    /\ cm = NotStarted

(***************************************************************************)
(* Start-up: MultiAgentChat.__init__ and the head of main().               *)
(***************************************************************************)
Printed(line) == stdout_main' = Append(stdout_main, line)

\* MultiAgentChat.load_config: the parsed file, or {} and a report when
\* opening or parsing raises
LoadConfig ==
    /\ mainpc = "load_config"
    /\ \/ /\ \E m \in ModelsChoices : config' = [kind |-> "loaded", models |-> m]
          /\ UNCHANGED stdout_main
       \/ /\ config' = [kind |-> "empty", models |-> <<>>]
          /\ Printed(<<"Error loading config">>)
    /\ mainpc' = "setup_agents"
    /\ setup_i' = 1
    /\ UNCHANGED <<cm, agents, selected_agents, batches, call, tasks, work_queue, entry_len, stats>>

\* the try body of setup_agents runs to its end: every field is there and
\* ollama.create did not raise
CreateSucceeds(persona) == persona.has_fields /\ persona.create_ok

\* the registry after one iteration of the loop of setup_agents
RegisterPersona(registry, persona) ==
    IF CreateSucceeds(persona)
    THEN (persona.key :> NewAgent(persona.key, persona.custom_name)) @@ registry
    ELSE registry

\* setup_agents giving up at the first persona that fails
LoopStopsOnFailure(persona) == CreateSucceeds(persona)

\* the except clause of setup_agents is inside the loop: the loop goes on
\* to the next persona whatever happened to this one
LoopContinues(persona) == TRUE

\* one iteration of `for model_key, model_config in self.config['models'].items()`
SetupPersona ==
    /\ mainpc = "setup_agents"
    /\ config.kind = "loaded"
    /\ setup_i <= Len(config.models)
    /\ LET persona == config.models[setup_i]
       IN  /\ agents' = RegisterPersona(agents, persona)
           /\ Printed(IF CreateSucceeds(persona)
                      THEN <<"Created agent", persona.key>>
                      ELSE <<"Error creating agent", persona.key>>)
           /\ setup_i' = IF LoopContinues(persona) THEN setup_i + 1
                         ELSE Len(config.models) + 1
    /\ UNCHANGED <<cm, mainpc, config, selected_agents, batches, call, tasks, work_queue,
                   entry_len, stats>>

\* self.config['models'] on the {} that load_config returned: KeyError, which
\* nothing between setup_agents and main() catches
SetupRaises ==
    /\ mainpc = "setup_agents"
    /\ config.kind = "empty"
    /\ mainpc' = "crashed"
    /\ UNCHANGED <<cm, config, setup_i, agents, selected_agents, batches, call, tasks,
                   work_queue, stdout_main, entry_len, stats>>

\* the loop is exhausted; __init__ builds the executor and returns to main()
SetupDone ==
    /\ mainpc = "setup_agents"
    /\ config.kind = "loaded"
    /\ setup_i > Len(config.models)
    /\ mainpc' = "main"
    /\ UNCHANGED <<cm, config, setup_i, agents, selected_agents, batches, call, tasks,
                   work_queue, stdout_main, entry_len, stats>>

\* list(chat_system.agents.keys()): registered keys in insertion order
RECURSIVE KeysFrom(_, _)
KeysFrom(models, registry) ==
    IF models = <<>> THEN <<>>
    ELSE (IF Head(models).key \in DOMAIN registry THEN <<Head(models).key>> ELSE <<>>)
         \o KeysFrom(Tail(models), registry)

\* main(): `if not chat_system.agents: ... sys.exit(1)`
ExitNoAgents ==
    /\ mainpc = "main"
    /\ DOMAIN agents = {}
    /\ Printed(<<"No agents available. Exiting.">>)
    /\ mainpc' = "exit1"
    /\ UNCHANGED <<cm, config, setup_i, agents, selected_agents, batches, call, tasks,
                   work_queue, entry_len, stats>>

\* main(): list_agents, then the selection: 'all' or a comma separated list
SelectAgents(lists) ==
    /\ mainpc = "main"
    /\ DOMAIN agents # {}
    /\ \E typed \in lists \cup {KeysFrom(config.models, agents)} :
          selected_agents' = typed
    /\ mainpc' = "chat_loop"
    /\ UNCHANGED <<cm, config, setup_i, agents, batches, call, tasks, work_queue,
                   stdout_main, entry_len, stats>>

(***************************************************************************)
(* MultiAgentChat.chat_with_agents, on the main thread.                    *)
(***************************************************************************)
\* the work item executor.submit(stream_agent_response, agent, message, ...)
\* creates; len0, overlapped and runs record the turn for the properties
\* a submission that binds every turn to the first registered agent
NewTaskFirstAgent(agent_name, message) ==
    [agent |-> KeysFrom(config.models, agents)[1], message |-> message, pc |-> "queued",
     result |-> "none", full_response |-> <<>>, nfrag |-> 0, request |-> <<>>,
     out |-> <<>>, len0 |-> 0, overlapped |-> FALSE, runs |-> 0]

NewTask(agent_name, message) ==
    [agent |-> agent_name, message |-> message, pc |-> "queued",
     result |-> "none", full_response |-> <<>>, nfrag |-> 0, request |-> <<>>,
     out |-> <<>>, len0 |-> 0, overlapped |-> FALSE, runs |-> 0]

HistoryLengths == [n \in DOMAIN agents |-> Len(agents[n].conversation_history)]

\* a chat_with_agents that takes an empty target list to mean every agent
ChatWithAgentsDefaultAll(limit) ==
    /\ mainpc = "chat_loop"
    /\ batches < limit
    /\ \E user_input \in Messages :
          call' = [message |-> user_input,
                   agent_names |-> IF selected_agents = <<>>
                                   THEN KeysFrom(config.models, agents)
                                   ELSE selected_agents,
                   i |-> 1, futures |-> <<>>, j |-> 0, printed0 |-> Len(stdout_main)]
    /\ batches' = batches + 1
    /\ entry_len' = HistoryLengths
    /\ Printed(<<"Responses:">>)
    /\ mainpc' = "dispatch"
    /\ UNCHANGED <<cm, config, setup_i, agents, selected_agents, tasks, work_queue, stats>>

\* the chat loop reads a message and calls chat_with_agents with the selection
ChatWithAgents(limit) ==
    /\ mainpc = "chat_loop"
    /\ batches < limit
    /\ \E user_input \in Messages :
          call' = [message |-> user_input, agent_names |-> selected_agents, i |-> 1,
                   futures |-> <<>>, j |-> 0, printed0 |-> Len(stdout_main)]
    /\ batches' = batches + 1
    /\ entry_len' = HistoryLengths
    /\ Printed(<<"Responses:">>)
    /\ mainpc' = "dispatch"
    /\ UNCHANGED <<cm, config, setup_i, agents, selected_agents, tasks, work_queue, stats>>

\* the chat loop reads 'quit'
Quit ==
    /\ mainpc = "chat_loop"
    /\ mainpc' = "quit"
    /\ UNCHANGED <<cm, config, setup_i, agents, selected_agents, batches, call, tasks,
                   work_queue, stdout_main, entry_len, stats>>

\* a dispatch that does not look the name up
IsRegisteredAlways(agent_name) == TRUE

\* `if agent_name in self.agents`
IsRegistered(agent_name) == agent_name \in DOMAIN agents

\* one iteration of `for agent_name in agent_names`
Dispatch ==
    /\ mainpc = "dispatch"
    /\ call.i <= Len(call.agent_names)
    /\ LET agent_name == call.agent_names[call.i]
           future == Len(tasks) + 1
       IN  IF IsRegistered(agent_name)
           THEN /\ tasks' = Append(tasks, NewTask(agent_name, call.message))
                /\ work_queue' = Append(work_queue, future)
                /\ call' = [call EXCEPT !.i = @ + 1, !.futures = Append(@, future)]
                /\ UNCHANGED stdout_main
           ELSE /\ Printed(<<"Agent not found", agent_name>>)
                /\ call' = [call EXCEPT !.i = @ + 1]
                /\ UNCHANGED <<tasks, work_queue, stats>>
    /\ UNCHANGED <<cm, mainpc, config, setup_i, agents, selected_agents, batches, entry_len, stats>>

\* the submit loop is exhausted; the join loop starts
DispatchDone ==
    /\ mainpc = "dispatch"
    /\ call.i > Len(call.agent_names)
    /\ mainpc' = "join"
    /\ call' = [call EXCEPT !.j = 1]
    /\ UNCHANGED <<cm, config, setup_i, agents, selected_agents, batches, tasks, work_queue,
                   stdout_main, entry_len, stats>>

\* a result() that does not block
FutureDoneAtOnce(future) == TRUE

\* future.result() has something to return or raise
FutureDone(future) == tasks[future].pc = "done"

\* one iteration of `for future in futures: future.result()`: blocks until
\* the work item is done and raises what the work item raised
AwaitResult ==
    /\ mainpc = "join"
    /\ call.j <= Len(call.futures)
    /\ FutureDone(call.futures[call.j])
    /\ IF tasks[call.futures[call.j]].result = "raised"
       THEN /\ mainpc' = "crashed"
            /\ UNCHANGED call
       ELSE /\ call' = [call EXCEPT !.j = @ + 1]
            /\ UNCHANGED mainpc
    /\ UNCHANGED <<cm, config, setup_i, agents, selected_agents, batches, tasks, work_queue,
                   stdout_main, entry_len, stats>>

\* chat_with_agents returns to the chat loop; its futures go with its frame
Return ==
    /\ mainpc = "join"
    /\ call.j > Len(call.futures)
    /\ mainpc' = "chat_loop"
    /\ call' = NoCall
    /\ tasks' = <<>>
    /\ UNCHANGED <<cm, config, setup_i, agents, selected_agents, batches, work_queue,
                   stdout_main, entry_len, stats>>

(***************************************************************************)
(* Agent.stream_chat, on a worker thread of the executor.                  *)
(***************************************************************************)
Active(t) == tasks[t].pc \in {"started", "streaming"}

\* work items a worker thread is running
Running == {t \in 1..Len(tasks) : Active(t)}

\* an executor that starts a thread for every work item
SlotFreeAlways == TRUE

\* the executor has a worker for one more work item
SlotFree == Cardinality(Running) < max_workers

\* an executor that drops the work items that had to wait
DequeueDropping(queue) == <<>>

\* work items the executor hands out next
Dequeue(queue) == Tail(queue)

History(agent_name) == agents[agent_name].conversation_history

\* a stream_chat without the except clause
CaughtNothing == FALSE

\* `except Exception` of stream_chat catches what the runtime raises
Caught == TRUE

\* the turn ends in the except clause: the report, or the future keeps the
\* exception when the clause does not catch it
Failed(task) ==
    IF Caught
    THEN [task EXCEPT !.pc = "done", !.result = "error",
                      !.out = Append(@, <<"Error from", task.agent>>)]
    ELSE [task EXCEPT !.pc = "done", !.result = "raised"]

\* a worker takes the oldest work item and enters stream_chat:
\* add_message('user', message), then the name prefix is printed
StartTurn(t) ==
    /\ work_queue # <<>>
    /\ t = Head(work_queue)
    /\ SlotFree
    /\ LET a == tasks[t].agent
           others == {u \in Running : tasks[u].agent = a}
       IN  /\ agents' = [agents EXCEPT ![a].conversation_history =
                            add_message(@, "user", tasks[t].message)]
           /\ tasks' = [u \in 1..Len(tasks) |->
                          IF u = t
                          THEN [tasks[u] EXCEPT !.pc = "started",
                                                !.len0 = Len(History(a)),
                                                !.runs = @ + 1,
                                                !.overlapped = others # {},
                                                !.out = Append(@, <<"prefix", a>>)]
                          ELSE IF u \in others
                               THEN [tasks[u] EXCEPT !.overlapped = TRUE]
                               ELSE tasks[u]]
    /\ work_queue' = Dequeue(work_queue)
    /\ UNCHANGED <<cm, mainpc, config, setup_i, selected_agents, batches, call, stdout_main,
                   entry_len>>
    /\ stats' = [stats EXCEPT ![tasks[t].agent].overlapped =
                    @ \/ \E u \in Running : tasks[u].agent = tasks[t].agent]

\* ollama.chat(model=..., messages=self.conversation_history, stream=True)
IssueRequest(t) ==
    /\ tasks[t].pc = "started"
    /\ tasks' = [tasks EXCEPT ![t].pc = "streaming",
                              ![t].request = History(tasks[t].agent)]
    /\ UNCHANGED <<cm, mainpc, config, setup_i, agents, selected_agents, batches, call,
                   work_queue, stdout_main, entry_len, stats>>

\* ollama.chat raises when the request is issued
RequestFails(t) ==
    /\ tasks[t].pc = "started"
    /\ tasks' = [tasks EXCEPT ![t] = Failed(@)]
    /\ UNCHANGED <<cm, mainpc, config, setup_i, agents, selected_agents, batches, call,
                   work_queue, stdout_main, entry_len>>
    /\ stats' = [stats EXCEPT ![tasks[t].agent].failed = @ + 1]

\* an accumulation that keeps the last fragment only
AccumulateLast(full_response, content) == content

\* `full_response += content`
Accumulate(full_response, content) == full_response \o content

\* a print that puts the text before what the turn printed so far
EmitFront(out, item) == <<item>> \o out

\* `print(content, end='', flush=True)` on the worker thread of the turn
Emit(out, item) == Append(out, item)

\* one iteration of `for chunk in stream` for a runtime that streams up to
\* limit fragments out of fragments: accumulate and print the fragment
Receive(t, fragments, limit) ==
    /\ tasks[t].pc = "streaming"
    /\ tasks[t].nfrag < limit
    /\ \E content \in fragments :
          tasks' = [tasks EXCEPT ![t].full_response = Accumulate(@, content),
                                 ![t].nfrag = @ + 1,
                                 ![t].out = Emit(@, <<"fragment", content>>)]
    /\ UNCHANGED <<cm, mainpc, config, setup_i, agents, selected_agents, batches, call,
                   work_queue, stdout_main, entry_len, stats>>

NextFragment(t) == Receive(t, Fragments, MaxFragments)

\* the stream raises instead of delivering its next fragment
StreamFails(t) ==
    /\ tasks[t].pc = "streaming"
    /\ tasks' = [tasks EXCEPT ![t] = Failed(@)]
    /\ UNCHANGED <<cm, mainpc, config, setup_i, agents, selected_agents, batches, call,
                   work_queue, stdout_main, entry_len>>
    /\ stats' = [stats EXCEPT ![tasks[t].agent].failed = @ + 1]

\* the stream ends: clean the full response, add_message('assistant', ...),
\* print the newline
FinishStream(t) ==
    /\ tasks[t].pc = "streaming"
    /\ agents' = [agents EXCEPT ![tasks[t].agent].conversation_history =
                     add_message(@, "assistant",
                                 get_clean_response(tasks[t].full_response))]
    /\ tasks' = [tasks EXCEPT ![t].pc = "done", ![t].result = "ok",
                              ![t].out = Append(@, <<"newline">>)]
    /\ UNCHANGED <<cm, mainpc, config, setup_i, selected_agents, batches, call, work_queue,
                   stdout_main, entry_len>>
    /\ stats' = [stats EXCEPT ![tasks[t].agent].ok = @ + 1]

\* __init__ and main() up to the chat loop
Startup ==
    \/ LoadConfig
    \/ SetupPersona
    \/ SetupRaises
    \/ SetupDone
    \/ ExitNoAgents

\* the steps of a chat_with_agents call
CallStep ==
    \/ Dispatch
    \/ DispatchDone
    \/ AwaitResult
    \/ Return

WorkerStep(t) ==
    \/ StartTurn(t)
    \/ IssueRequest(t)
    \/ RequestFails(t)
    \/ NextFragment(t)
    \/ StreamFails(t)
    \/ FinishStream(t)

Next ==
    \/ Startup
    \/ SelectAgents(TargetLists)
    \/ ChatWithAgents(MaxBatches)
    \/ Quit
    \/ CallStep
    \/ \E t \in 1..Len(tasks) : WorkerStep(t)

\* the program with any selection of up to MaxTargets names
Spec == Init /\ [][Next]_vars

PoolNext ==
    \/ Startup
    \/ SelectAgents(LongLists)
    \/ ChatWithAgents(OneBatch)
    \/ Quit
    \/ CallStep
    \/ \E t \in 1..Len(tasks) : WorkerStep(t)

\* the program with a selection that exceeds the pool
PoolSpec == Init /\ [][PoolNext]_vars

\* worker threads and the main thread inside chat_with_agents keep running,
\* and a runtime stream ends or fails after finitely many fragments; the user
\* is not obliged to type anything
PoolFairness ==
    /\ WF_vars(CallStep)
    /\ \A t \in 1..(max_workers + 1) :
          WF_vars(t <= Len(tasks) /\ WorkerStep(t))

FairPoolSpec == PoolSpec /\ PoolFairness

(***************************************************************************)
(* One turn with a long stream: the session after start-up registered the  *)
(* first persona and failed to create the second, one name is selected and *)
(* one message is sent; the runtime streams up to MaxPieces pieces.        *)
(***************************************************************************)
OneAgentModels ==
    <<Persona(PersonaKeys[1], TRUE, TRUE), Persona(PersonaKeys[2], TRUE, FALSE)>>

\* the state main() is in when MultiAgentChat() has returned
StreamInit ==
    /\ mainpc = "main"
    /\ config = [kind |-> "loaded", models |-> OneAgentModels]
    /\ setup_i = Len(OneAgentModels) + 1
    /\ agents = RegisterPersona(RegisterPersona(<<>>, OneAgentModels[1]), OneAgentModels[2])
    /\ selected_agents = <<>>
    /\ batches = 0
    /\ call = NoCall
    /\ tasks = <<>>
    /\ work_queue = <<>>
    /\ stdout_main = <<<<"Created agent", PersonaKeys[1]>>,
                       <<"Error creating agent", PersonaKeys[2]>>>>
    /\ entry_len = <<>>
    /\ stats = [n \in Names |-> [ok |-> 0, failed |-> 0, overlapped |-> FALSE]]
    /\ cm = NotStarted

NextPiece(t) == Receive(t, Pieces, MaxPieces)

StreamWorkerStep(t) ==
    \/ StartTurn(t)
    \/ IssueRequest(t)
    \/ RequestFails(t)
    \/ NextPiece(t)
    \/ StreamFails(t)
    \/ FinishStream(t)

StreamNext ==
    \/ SelectAgents(SingleLists)
    \/ ChatWithAgents(OneBatch)
    \/ Quit
    \/ CallStep
    \/ \E t \in 1..Len(tasks) : StreamWorkerStep(t)

StreamSpec == StreamInit /\ [][StreamNext]_vars

(***************************************************************************)
(* chat_with_model.py: one persona, chosen at the prompt, created by       *)
(* create_custom_model and then used by the chat loop.                     *)
(***************************************************************************)
\* messages the chat loop reads before the user types 'quit'
MaxChats == 2

\* persona keys a configuration file may hold; 'mario' is the default the
\* program falls back to
CmKeys == {"mario", "luigi"}
PersonaFields == {"base_model", "custom_name", "system_prompt"}

\* one entry of config['models']: the fields it carries and whether
\* ollama.create succeeds for it
PersonaDicts ==
    {[fields |-> PersonaFields, create_ok |-> ok] : ok \in BOOLEAN}
        \cup {[fields |-> PersonaFields \ {f}, create_ok |-> TRUE] : f \in PersonaFields}

\* the 'models' sections: any of the keys, each with any such entry
CmModels == UNION {[K -> PersonaDicts] : K \in SUBSET CmKeys}

\* what load_config returns: {} when the file cannot be read or parsed, a
\* mapping without 'models', or a mapping with 'models' and, optionally,
\* 'default_model'
CmConfigs ==
    {[kind |-> k, models |-> <<>>, default_model |-> "absent"] : k \in {"empty", "no_models"}}
        \cup {[kind |-> "loaded", models |-> m, default_model |-> d] :
                 m \in CmModels, d \in {"absent", "luigi"}}

\* what the user may type at the persona prompt, stripped
Typed == {"", "mario", "luigi", "peach"}

\* a local variable of create_custom_model no assignment has bound yet
Unbound == "unbound"

chatvars == <<mainpc, config, setup_i, agents, selected_agents, batches, call, tasks,
              work_queue, stdout_main, entry_len, stats>>

CmInit ==
    /\ mainpc = "not_started"
    /\ config = [kind |-> "unset", models |-> <<>>]
    /\ setup_i = 0
    /\ agents = <<>>
    /\ selected_agents = <<>>
    /\ batches = 0
    /\ call = NoCall
    /\ tasks = <<>>
    /\ work_queue = <<>>
    /\ stdout_main = <<>>
    /\ entry_len = <<>>
    /\ stats = [n \in Names |-> [ok |-> 0, failed |-> 0, overlapped |-> FALSE]]
    /\ cm = [pc |-> "load_config", config |-> [kind |-> "unset", models |-> <<>>,
                                               default_model |-> "absent"],
             model_choice |-> "", base_model |-> Unbound, custom_name |-> Unbound,
             custom_model |-> Unbound, error |-> "none", stdout |-> <<>>, chats |-> 0]

\* load_config of chat_with_model.py
CmLoadConfig ==
    /\ cm.pc = "load_config"
    /\ \E c \in CmConfigs :
          cm' = [cm EXCEPT !.config = c, !.pc = "check",
                           !.stdout = IF c.kind = "empty"
                                      THEN Append(@, <<"Error loading config">>) ELSE @]
    /\ UNCHANGED chatvars

\* `if not config: ... sys.exit(1)`
CmExit ==
    /\ cm.pc = "check"
    /\ cm.config.kind = "empty"
    /\ cm' = [cm EXCEPT !.pc = "exit1",
                        !.stdout = Append(@, <<"Failed to load configuration. Exiting.">>)]
    /\ UNCHANGED chatvars

\* list_available_personas: config['models'] raises KeyError when the
\* mapping has no 'models', and nothing catches it
list_available_personas ==
    /\ cm.pc = "check"
    /\ cm.config.kind # "empty"
    /\ cm' = IF cm.config.kind = "loaded"
             THEN [cm EXCEPT !.pc = "choose",
                             !.stdout = Append(@, <<"Available personas", DOMAIN cm.config.models>>)]
             ELSE [cm EXCEPT !.pc = "crashed", !.error = "KeyError",
                             !.stdout = Append(@, <<"Available personas">>)]
    /\ UNCHANGED chatvars

\* config.get('default_model', 'mario')
DefaultModel(c) == IF c.default_model = "absent" THEN "mario" ELSE c.default_model

\* the persona prompt: the empty answer and an answer that is no persona
\* key both fall back to default_model, which is not looked up
ChoosePersona ==
    /\ cm.pc = "choose"
    /\ \E typed \in Typed :
          LET default_model == DefaultModel(cm.config)
              model_choice == IF typed = "" THEN default_model ELSE typed
          IN  cm' = IF model_choice \notin DOMAIN cm.config.models
                    THEN [cm EXCEPT !.model_choice = default_model, !.pc = "l35",
                                    !.stdout = Append(@, <<"Invalid persona choice", default_model>>)]
                    ELSE [cm EXCEPT !.model_choice = model_choice, !.pc = "l35"]
    /\ UNCHANGED chatvars

\* model_config = config['models'][model_key]
LookupPersona ==
    /\ cm.pc = "l35"
    /\ cm' = [cm EXCEPT !.pc = IF cm.model_choice \in DOMAIN cm.config.models
                               THEN "l36" ELSE "except"]
    /\ UNCHANGED chatvars

\* model_config[field], KeyError when the entry lacks the field
HasField(field) == field \in cm.config.models[cm.model_choice].fields

\* base_model = model_config['base_model']
ReadBaseModel ==
    /\ cm.pc = "l36"
    /\ cm' = IF HasField("base_model")
             THEN [cm EXCEPT !.base_model = BaseModelOf(cm.model_choice), !.pc = "l37"]
             ELSE [cm EXCEPT !.pc = "except"]
    /\ UNCHANGED chatvars

\* custom_name = model_config['custom_name']
ReadCustomName ==
    /\ cm.pc = "l37"
    /\ cm' = IF HasField("custom_name")
             THEN [cm EXCEPT !.custom_name = CustomNameOf(cm.model_choice), !.pc = "l38"]
             ELSE [cm EXCEPT !.pc = "except"]
    /\ UNCHANGED chatvars

\* system_prompt = model_config['system_prompt']
ReadSystemPrompt ==
    /\ cm.pc = "l38"
    /\ cm' = [cm EXCEPT !.pc = IF HasField("system_prompt") THEN "l40" ELSE "except"]
    /\ UNCHANGED chatvars

\* ollama.create and `return custom_name`, or the exception of the runtime
CreateModel ==
    /\ cm.pc = "l40"
    /\ cm' = IF cm.config.models[cm.model_choice].create_ok
             THEN [cm EXCEPT !.custom_model = cm.custom_name, !.pc = "chat_loop",
                             !.stdout = @ \o <<<<"Creating custom model", cm.custom_name>>,
                                               <<"created successfully", cm.custom_name>>>>]
             ELSE [cm EXCEPT !.pc = "except",
                             !.stdout = Append(@, <<"Creating custom model", cm.custom_name>>)]
    /\ UNCHANGED chatvars

\* `except Exception as e: print(...); return base_model`: reading a local
\* that no assignment has bound raises UnboundLocalError out of the handler
ReturnBaseModel ==
    /\ cm.pc = "except"
    /\ cm' = IF cm.base_model # Unbound
             THEN [cm EXCEPT !.custom_model = cm.base_model, !.pc = "chat_loop",
                             !.stdout = Append(@, <<"Error creating custom model">>)]
             ELSE [cm EXCEPT !.pc = "crashed", !.error = "UnboundLocalError",
                             !.stdout = Append(@, <<"Error creating custom model">>)]
    /\ UNCHANGED chatvars

\* one message of the chat loop: chat_with_model streams the answer or
\* reports the exception
chat_with_model ==
    /\ cm.pc = "chat_loop"
    /\ cm.chats < MaxChats
    /\ \E answered \in BOOLEAN :
          cm' = [cm EXCEPT !.chats = @ + 1,
                           !.stdout = Append(@, IF answered
                                                THEN <<"Model response", cm.custom_model>>
                                                ELSE <<"An error occurred">>)]
    /\ UNCHANGED chatvars

\* the user types 'quit'
CmQuit ==
    /\ cm.pc = "chat_loop"
    /\ cm' = [cm EXCEPT !.pc = "done"]
    /\ UNCHANGED chatvars

CmNext ==
    \/ CmLoadConfig
    \/ CmExit
    \/ list_available_personas
    \/ ChoosePersona
    \/ LookupPersona
    \/ ReadBaseModel
    \/ ReadCustomName
    \/ ReadSystemPrompt
    \/ CreateModel
    \/ ReturnBaseModel
    \/ chat_with_model
    \/ CmQuit

CmSpec == CmInit /\ [][CmNext]_vars

(***************************************************************************)
(* Properties.                                                             *)
(***************************************************************************)
IsPrefix(s, t) == Len(s) <= Len(t) /\ SubSeq(t, 1, Len(s)) = s

Occurrences(seq, x) == Cardinality({i \in 1..Len(seq) : seq[i] = x})

Distinct(seq) == \A i, j \in 1..Len(seq) : seq[i] = seq[j] => i = j

TaskIds == 1..Len(tasks)

\* chat_with_agents is about to return: every future has been waited for
ReturnPoint == mainpc = "join" /\ call.j > Len(call.futures)

\* the target list names registered agents only, each once
DistinctRegistered ==
    /\ Distinct(call.agent_names)
    /\ \A i \in 1..Len(call.agent_names) : call.agent_names[i] \in DOMAIN agents

\* what the call printed so far
CallOutput == SubSeq(stdout_main, call.printed0 + 1, Len(stdout_main))

\* C1: no two stream_chat invocations of the same agent are in progress at
\* once, for any target list, also one that names an agent more than once.
NoOverlappingTurns ==
    \A t, u \in TaskIds :
        (t # u /\ Active(t) /\ Active(u)) => tasks[t].agent # tasks[u].agent

\* C2: when chat_with_agents, dispatched to K distinct registered agents,
\* returns, all K turns have finished and none is running; when all K
\* succeeded each history gained one user entry followed by one assistant
\* entry.
BarrierJoin ==
    (ReturnPoint /\ DistinctRegistered) =>
        /\ Len(tasks) = Len(call.agent_names)
        /\ \A t \in TaskIds : tasks[t].pc = "done" /\ tasks[t].result \in {"ok", "error"}
        /\ Running = {} /\ work_queue = <<>>
        /\ (\A t \in TaskIds : tasks[t].result = "ok") =>
              \A i \in 1..Len(call.agent_names) :
                  LET n == call.agent_names[i]
                      h == History(n)
                  IN  /\ Len(h) = entry_len[n] + 2
                      /\ h[entry_len[n] + 1] = Message("user", call.message)
                      /\ h[entry_len[n] + 2].role = "assistant"

BarrierJoinWitness ==
    /\ ReturnPoint /\ DistinctRegistered
    /\ Len(call.agent_names) = 2
    /\ \A t \in TaskIds : tasks[t].result = "ok"

\* C3: after N stream_chat calls of an agent that all succeeded and did not
\* overlap, its history has 2*N entries with roles user, assistant, user, ...
AlternatingHistory ==
    \A n \in DOMAIN agents :
        (/\ stats[n].failed = 0
         /\ ~stats[n].overlapped
         /\ \A t \in TaskIds : tasks[t].agent = n => tasks[t].pc \in {"queued", "done"})
        => /\ Len(History(n)) = 2 * stats[n].ok
           /\ \A i \in 1..Len(History(n)) :
                 History(n)[i].role = IF i % 2 = 1 THEN "user" ELSE "assistant"

AlternatingHistoryWitness ==
    \E n \in DOMAIN agents :
        /\ stats[n].ok = 2 /\ stats[n].failed = 0 /\ ~stats[n].overlapped
        /\ \A t \in TaskIds : tasks[t].agent = n => tasks[t].pc = "done"

\* the turn of work item t ends in the except clause in this step
FailsNow(t) == Active(t) /\ tasks'[t].pc = "done" /\ tasks'[t].result # "ok"

\* C4: when the runtime call of a turn fails, the agent's history after the
\* turn is its history before the turn plus exactly one user entry holding
\* the message, and no assistant entry.
FailedTurnAddsOneUser ==
    [][\A t \in TaskIds :
          FailsNow(t) =>
              agents'[tasks[t].agent].conversation_history =
                  Append(SubSeq(History(tasks[t].agent), 1, tasks[t].len0),
                         Message("user", tasks[t].message))]_vars

\* the same for a failing turn that no other turn of the agent overlapped
FailedTurnAloneAddsOneUser ==
    [][\A t \in TaskIds :
          (FailsNow(t) /\ ~tasks[t].overlapped) =>
              agents'[tasks[t].agent].conversation_history =
                  Append(SubSeq(History(tasks[t].agent), 1, tasks[t].len0),
                         Message("user", tasks[t].message))]_vars

\* C5: at most max_workers stream_chat calls run at the same time, also when
\* a batch submits more turns than that.
PoolBound == Cardinality(Running) <= max_workers

PoolBoundWitness == Cardinality(Running) = max_workers /\ work_queue # <<>>

\* C6: in a batch to several distinct agents a failing turn is reported with
\* its agent's name and changes no other turn: every agent whose stream
\* succeeded ends the batch with its user entry and its assistant entry, and
\* chat_with_agents returns without raising.
FailureIsolated ==
    /\ mainpc = "crashed" => call = NoCall
    /\ (ReturnPoint /\ DistinctRegistered) =>
          \A t \in TaskIds :
              LET n == tasks[t].agent
                  h == History(n)
              IN  /\ tasks[t].result = "error" =>
                        /\ tasks[t].out[Len(tasks[t].out)] = <<"Error from", n>>
                        /\ Len(h) = entry_len[n] + 1
                        /\ h[Len(h)] = Message("user", call.message)
                  /\ tasks[t].result = "ok" =>
                        /\ Len(h) = entry_len[n] + 2
                        /\ h[Len(h) - 1] = Message("user", call.message)
                        /\ h[Len(h)] =
                              Message("assistant", get_clean_response(tasks[t].full_response))
                  /\ tasks[t].result \in {"ok", "error"}

FailureIsolatedWitness ==
    /\ ReturnPoint /\ DistinctRegistered
    /\ \E t, u \in TaskIds : tasks[t].result = "error" /\ tasks[u].result = "ok"

\* C7: chat_with_agents reports 'Agent not found' once for each occurrence of
\* an unregistered name, submits no turn and creates no agent for it, and
\* runs the turn of every occurrence of a registered name to completion.
NotFoundReported ==
    /\ \A t \in TaskIds : tasks[t].agent \in DOMAIN agents
    /\ mainpc \in {"dispatch", "join"} =>
          \A n \in Names \ DOMAIN agents :
              Occurrences(CallOutput, <<"Agent not found", n>>) =
                  Occurrences(SubSeq(call.agent_names, 1, call.i - 1), n)
    /\ ReturnPoint =>
          \A n \in DOMAIN agents :
              /\ Occurrences(CallOutput, <<"Agent not found", n>>) = 0
              /\ Cardinality({t \in TaskIds : tasks[t].agent = n /\ tasks[t].pc = "done"}) =
                    Occurrences(call.agent_names, n)

NotFoundReportedWitness ==
    /\ ReturnPoint
    /\ \E n \in Names \ DOMAIN agents : Occurrences(call.agent_names, n) = 2
    /\ \E n \in DOMAIN agents : Occurrences(call.agent_names, n) = 1

\* C8: every conversation_history only grows at its end: the history before
\* any step is a prefix of the history after it, and no agent disappears.
AppendOnly ==
    [][\A n \in DOMAIN agents :
          /\ n \in DOMAIN agents'
          /\ IsPrefix(History(n), agents'[n].conversation_history)]_vars

AppendOnlyWitness ==
    \E n \in DOMAIN agents :
        /\ Len(History(n)) >= 3
        /\ stats[n].failed >= 1 /\ stats[n].ok >= 1

\* setup_agents has returned
SetupFinished == config.kind = "loaded" /\ mainpc \notin {"load_config", "setup_agents"}

\* C9: setup_agents processes every persona; a persona whose model creation
\* fails or that lacks a field is reported and skipped, and after setup the
\* registry holds exactly the personas whose creation succeeded, each bound
\* to its custom_name.
SetupRegistersSucceeded ==
    SetupFinished =>
        /\ setup_i = Len(config.models) + 1
        /\ \A i \in 1..Len(config.models) :
              LET persona == config.models[i]
              IN  IF persona.has_fields /\ persona.create_ok
                  THEN /\ persona.key \in DOMAIN agents
                       /\ agents[persona.key].name = persona.key
                       /\ agents[persona.key].model_name = persona.custom_name
                       /\ Occurrences(stdout_main, <<"Created agent", persona.key>>) = 1
                  ELSE /\ persona.key \notin DOMAIN agents
                       /\ Occurrences(stdout_main, <<"Error creating agent", persona.key>>) = 1
        /\ DOMAIN agents \subseteq {config.models[i].key : i \in 1..Len(config.models)}

SetupRegistersSucceededWitness ==
    /\ SetupFinished
    /\ ~config.models[1].has_fields
    /\ DOMAIN agents = {config.models[2].key}

\* C10: every turn chat_with_agents submits is eventually run, exactly once,
\* and finishes, also when more turns are submitted than the pool has
\* workers, and chat_with_agents eventually returns.
EveryTurnFinishes ==
    /\ (mainpc = "dispatch") ~> (mainpc = "chat_loop")
    /\ [](ReturnPoint =>
            /\ Len(tasks) = Cardinality({i \in 1..Len(call.agent_names) :
                                            call.agent_names[i] \in DOMAIN agents})
            /\ \A t \in TaskIds : tasks[t].pc = "done" /\ tasks[t].runs = 1)

EveryTurnFinishesWitness ==
    /\ ReturnPoint
    /\ Len(tasks) = max_workers + 1
    /\ \A t \in TaskIds : tasks[t].runs = 1

\* C11: when load_config fails (it returns {} and reports) or no persona
\* could be registered, start-up ends in a controlled way, by the report and
\* sys.exit(1), and never by an exception that escapes MultiAgentChat().
ControlledStartup ==
    /\ mainpc # "crashed"
    /\ config.kind = "empty" => mainpc \in {"setup_agents", "exit1"}
    /\ (SetupFinished /\ DOMAIN agents = {}) => mainpc \in {"main", "exit1"}

\* the assistant entry the successful turn t stored
Stored(t) == History(tasks[t].agent)[tasks[t].len0 + 2].content

Succeeded(t) == tasks[t].pc = "done" /\ tasks[t].result = "ok"

Contains(s, p) == \E i \in 1..Len(s) : StartsWithAt(s, i, p)

\* C12: get_clean_response is idempotent: cleaning a cleaned text changes
\* nothing, also when the text of a marker is interrupted by a marker span.
CleanIdempotent ==
    \A t \in TaskIds :
        Succeeded(t) => get_clean_response(Stored(t)) = Stored(t)

\* position of the first OPEN that no CLOSE follows, 0 when there is none
FirstUnterminated(s) ==
    LET opens == {p \in 1..Len(s) :
                     StartsWithAt(s, p, OPEN) /\ FirstClose(s, p + Len(OPEN)) = 0}
    IN  IF opens = {} THEN 0 ELSE CHOOSE p \in opens : \A q \in opens : p <= q

\* C13: when the text holds an OPEN with no CLOSE after it, the region from
\* that OPEN to the end of the text is removed: the result is the cleaned
\* text before it and holds no OPEN.
UnterminatedRemoved ==
    \A t \in TaskIds :
        (Succeeded(t) /\ FirstUnterminated(tasks[t].full_response) # 0) =>
            /\ Stored(t) =
                  get_clean_response(SubSeq(tasks[t].full_response, 1,
                                            FirstUnterminated(tasks[t].full_response) - 1))
            /\ ~Contains(Stored(t), OPEN)

\* the text read with properly paired, possibly nested markers: whether the
\* pairing is proper and the characters outside every span
RECURSIVE Paired(_, _, _)
Paired(s, i, depth) ==
    IF i > Len(s) THEN [ok |-> depth = 0, kept |-> <<>>]
    ELSE IF StartsWithAt(s, i, OPEN) THEN Paired(s, i + Len(OPEN), depth + 1)
    ELSE IF StartsWithAt(s, i, CLOSE)
         THEN IF depth = 0 THEN [ok |-> FALSE, kept |-> <<>>]
              ELSE Paired(s, i + Len(CLOSE), depth - 1)
    ELSE LET rest == Paired(s, i + 1, depth)
         IN  [ok |-> rest.ok,
              kept |-> (IF depth = 0 THEN <<s[i]>> ELSE <<>>) \o rest.kept]

\* the markers are well formed and the text outside the spans is free of
\* marker text
WellFormed(s) ==
    /\ Paired(s, 1, 0).ok
    /\ ~Contains(Paired(s, 1, 0).kept, OPEN)
    /\ ~Contains(Paired(s, 1, 0).kept, CLOSE)

\* C14: for a text with well formed markers (paired, possibly nested, spans
\* possibly holding line breaks) the result is the text outside every span,
\* outermost pair included, in order and trimmed.
WellFormedSpansRemoved ==
    \A t \in TaskIds :
        (Succeeded(t) /\ WellFormed(tasks[t].full_response)) =>
            Stored(t) = Strip(Paired(tasks[t].full_response, 1, 0).kept)

\* the same for markers that are paired without nesting
FlatSpansRemoved ==
    \A t \in TaskIds :
        (/\ Succeeded(t)
         /\ WellFormed(tasks[t].full_response)
         /\ ~Contains(tasks[t].full_response, OPEN \o OPEN)
         /\ \A i \in 1..Len(tasks[t].full_response) :
               StartsWithAt(tasks[t].full_response, i, OPEN) =>
                   LET k == FirstClose(tasks[t].full_response, i + Len(OPEN))
                   IN  ~Contains(SubSeq(tasks[t].full_response, i + Len(OPEN), k - 1), OPEN))
        => Stored(t) = Strip(Paired(tasks[t].full_response, 1, 0).kept)

\* the fragments a turn printed, in the order of its output
RECURSIVE FragmentsOf(_)
FragmentsOf(out) ==
    IF out = <<>> THEN <<>>
    ELSE (IF Head(out)[1] = "fragment" THEN <<Head(out)[2]>> ELSE <<>>)
         \o FragmentsOf(Tail(out))

RECURSIVE Flatten(_)
Flatten(seqs) == IF seqs = <<>> THEN <<>> ELSE Head(seqs) \o Flatten(Tail(seqs))

EmptyDispatch ==
    (mainpc \in {"dispatch", "join"} /\ selected_agents = <<>>) =>
        /\ tasks = <<>> /\ work_queue = <<>> /\ call.futures = <<>>
        /\ CallOutput = <<<<"Responses:">>>>
        /\ \A n \in DOMAIN agents : Len(History(n)) = entry_len[n]
        /\ mainpc = "join" => ReturnPoint

EmptyDispatchWitness ==
    /\ ReturnPoint
    /\ selected_agents = <<>>
    /\ batches = MaxBatches
    /\ Cardinality(DOMAIN agents) = 2

\* the turn of work item t has issued its generation request
Requested(t) == tasks[t].pc = "streaming" \/ (tasks[t].pc = "done" /\ tasks[t].request # <<>>)

\* C17: the user entry is appended before the request is issued, and the
\* message list of the request is the agent's entire history at that
\* moment, whose last entry is the user entry of this turn; entries left by
\* earlier turns, failed ones included, are carried.
RequestCarriesTurn ==
    \A t \in TaskIds :
        Requested(t) =>
            /\ IsPrefix(tasks[t].request, History(tasks[t].agent))
            /\ tasks[t].request[Len(tasks[t].request)] = Message("user", tasks[t].message)

\* the same for a turn that no other turn of the agent overlapped, where the
\* last entry is moreover the one this turn appended
RequestCarriesTurnAlone ==
    \A t \in TaskIds :
        (Requested(t) /\ ~tasks[t].overlapped) =>
            /\ IsPrefix(tasks[t].request, History(tasks[t].agent))
            /\ Len(tasks[t].request) = tasks[t].len0 + 1
            /\ tasks[t].request[Len(tasks[t].request)] = Message("user", tasks[t].message)

\* C18: on a successful turn the assistant entry is appended once, after
\* the last fragment of the stream, and its content is get_clean_response
\* of the concatenation of all fragments in arrival order; while the
\* stream is being received nothing is appended.
AssistantAfterStream ==
    \A t \in TaskIds :
        /\ tasks[t].pc \in {"started", "streaming"} =>
              Len(History(tasks[t].agent)) = tasks[t].len0 + 1
        /\ Succeeded(t) =>
              /\ Len(History(tasks[t].agent)) = tasks[t].len0 + 2
              /\ History(tasks[t].agent)[tasks[t].len0 + 2] =
                    Message("assistant",
                            get_clean_response(Flatten(FragmentsOf(tasks[t].out))))

AssistantAfterStreamWitness ==
    \E t \in TaskIds :
        /\ Succeeded(t)
        /\ tasks[t].nfrag = 3
        /\ FragmentsOf(tasks[t].out)[1] = <<"x">>
        /\ Stored(t) = <<"x">>
        /\ tasks[t].full_response # <<"x">>

\* the names of the target list of the running call
Targets == {call.agent_names[i] : i \in 1..Len(call.agent_names)}

\* the work items that take a step
Stepping == {t \in TaskIds : t <= Len(tasks') /\ tasks'[t].pc # tasks[t].pc}

\* C19: from its entry to its return chat_with_agents leaves the registry
\* as it is (same names, same agent and model bound to each name) and
\* leaves the history of every agent outside the target list as it is; a
\* step that changes the history of an agent is a step of a turn of that
\* agent and appends to it.
DispatchFrame ==
    [][(mainpc \in {"dispatch", "join"}) =>
          /\ DOMAIN agents' = DOMAIN agents
          /\ \A n \in DOMAIN agents :
                /\ agents'[n].name = agents[n].name
                /\ agents'[n].model_name = agents[n].model_name
                /\ n \notin Targets =>
                      agents'[n].conversation_history = agents[n].conversation_history
                /\ agents'[n].conversation_history # agents[n].conversation_history =>
                      /\ Stepping # {}
                      /\ \A t \in Stepping : tasks[t].agent = n
                      /\ IsPrefix(agents[n].conversation_history,
                                  agents'[n].conversation_history)]_vars

DispatchFrameWitness ==
    /\ ReturnPoint
    /\ DOMAIN agents = {"a", "b"}
    /\ selected_agents = <<"b">>
    /\ Len(History("b")) = entry_len["b"] + 2
    /\ History("a") = <<>>
    /\ agents["a"].model_name = CustomNameOf("a")

\* create_custom_model was called and has returned
CmReturned == cm.pc \in {"chat_loop", "done"}

\* the try body of create_custom_model runs to `return custom_name`
CmCreated ==
    /\ cm.model_choice \in DOMAIN cm.config.models
    /\ cm.config.models[cm.model_choice].fields = PersonaFields
    /\ cm.config.models[cm.model_choice].create_ok

\* C20: create_custom_model never raises and always returns a model name:
\* the custom name when the creation succeeds, the base model name of the
\* persona on every failure.
CreateAlwaysReturns ==
    /\ cm.error # "UnboundLocalError"
    /\ CmReturned =>
          cm.custom_model = IF CmCreated THEN CustomNameOf(cm.model_choice)
                            ELSE BaseModelOf(cm.model_choice)

\* what holds of it: whenever it returns, it returns these names, and it
\* raises only when the failure came before base_model was bound
CreateReturnsOnceBaseIsBound ==
    /\ CmReturned =>
          cm.custom_model = IF CmCreated THEN CustomNameOf(cm.model_choice)
                            ELSE BaseModelOf(cm.model_choice)
    /\ cm.error = "UnboundLocalError" =>
          \/ cm.model_choice \notin DOMAIN cm.config.models
          \/ "base_model" \notin cm.config.models[cm.model_choice].fields

====
